---- MODULE Spec2Model ----
(***************************************************************************)
(* State-machine model of MCEq/data.py, class InteractionYields: the yield *)
(* store built by _load, the modification cache kept by _set_mod_pprod and *)
(* _gen_mod_matrix, the band selection of set_xf_band and the lookup done  *)
(* by get_y_matrix / assign_yield_idx; class DecayYields: the decay index   *)
(* left by _gen_index and _load; class HadAirCrossSections: get_cs; class  *)
(* MCEqParticle: calculate_mixing_energy.                                  *)
(*                                                                         *)
(* Matrices are functions [i \in 0..d-1 |-> [j \in 0..d-1 |-> value]], row *)
(* i (daughter bin), column j (projectile bin), zero based as in numpy.    *)
(* Yields and modification factors are naturals.  The x_lab matrix holds   *)
(* the quotients e_grid[i] / e_grid[j] in fixed point, in units of         *)
(* 1 / XOne(d); the grids used make every quotient exact in that unit.     *)
(***************************************************************************)
EXTENDS Integers, Sequences, FiniteSets, TLC

VARIABLES
    config,          \* mceq_config.config: the three flags the class reads
    iam,             \* self.iam, name of the loaded interaction model
    dim,             \* self.dim
    e_grid,          \* self.e_grid
    e_bins,          \* self.e_bins
    projectiles,     \* self.projectiles
    secondary_dict,  \* self.secondary_dict
    yields,          \* self.yields: (projectile, daughter) -> stored matrix
    no_interaction,  \* self.no_interaction, the array object made by _load
    xmat,            \* self.xmat: None, or the array it refers to
    mod_pprod,       \* self.mod_pprod: (prim, sec) -> (name, args, matrix)
    band,            \* self.band: None or (lo, hi)
    ret,             \* the last call: its name, arguments and outcome (and for
                     \* _set_mod_pprod the cache it found)
    ncalls,          \* number of _set_mod_pprod calls made so far
    hist,            \* what get_y_matrix returned before a band was set
    charm_model,     \* self.charm_model of InteractionYields
    decay,           \* the DecayYields object: daughter_dict, decay_dict, mothers
    cs,              \* the HadAirCrossSections object: iam and the table self.cs
    particle         \* the MCEqParticle object: pdgid, d, mix_idx, E_mix, flags

\* the objects of the other classes, which InteractionYields never touches
others == <<decay, cs, particle>>

vars == <<config, iam, dim, e_grid, e_bins, projectiles, secondary_dict,
          yields, no_interaction, xmat, mod_pprod, band, ret, ncalls, hist,
          charm_model, decay, cs, particle>>

(***************************************************************************)
(* Bounds of the model.                                                    *)
(***************************************************************************)
\* grid size of the models used for the cache and band operations
DimSmall == 3
\* grid size of the model used for the leading-particle veto: the veto's
\* window, columns 20..49, must not be empty
DimVeto == 22
\* number of _set_mod_pprod calls in one behaviour of SpecMod
MaxModCalls == 2
\* number of _set_mod_pprod calls in one behaviour of Spec and SpecVeto
MaxGetModCalls == 1
\* largest band index passed to set_xf_band
MaxBandIdx == 3

None == << >>

\* None as the value of charm_model, which otherwise holds a name
NoName == "None"

\* no DecayYields, HadAirCrossSections or MCEqParticle object was created
NoOthers == decay = None /\ cs = None /\ particle = None

(***************************************************************************)
(* numpy helpers                                                           *)
(***************************************************************************)
Idx(d) == 0 .. (d - 1)

RECURSIVE SumTo(_, _)
\* sum of f[0] + ... + f[n-1]
SumTo(f, n) == IF n <= 0 THEN 0 ELSE f[n - 1] + SumTo(f, n - 1)

\* np.sum(m[:, lo:hi]) for a d x d matrix: python clips the slice to the array
SumCols(m, d, lo, hi) ==
    LET h == IF hi < d THEN hi ELSE d
        col(j) == SumTo([i \in Idx(d) |-> m[i][j]], d)
    IN  IF lo >= h THEN 0
        ELSE SumTo([k \in 0 .. (h - lo - 1) |-> col(lo + k)], h - lo)

\* np.sum(m)
SumAll(m, d) == SumCols(m, d, 0, d)

\* np.zeros(dim**2).reshape(dim, dim)
Zeros(d) == [i \in Idx(d) |-> [j \in Idx(d) |-> 0]]

\* m[np.tril_indices(d, k)] = 0. : zero every entry with j - i <= k
ZeroTril(m, d, k) == [i \in Idx(d) |-> [j \in Idx(d) |-> IF j - i <= k THEN 0 ELSE m[i][j]]]

\* m[np.triu_indices(d, k)] = 0. : zero every entry with j - i >= k
ZeroTriu(m, d, k) == [i \in Idx(d) |-> [j \in Idx(d) |-> IF j - i >= k THEN 0 ELSE m[i][j]]]

\* element-wise product, m *= k
Times(m, k, d) == [i \in Idx(d) |-> [j \in Idx(d) |-> m[i][j] * k[i][j]]]

Abs(x) == IF x < 0 THEN -x ELSE x

RECURSIVE GCD(_, _)
GCD(a, b) == IF b = 0 THEN a ELSE GCD(b, a % b)

(***************************************************************************)
(* The pickled tables read by _load.  Two interaction models: "A" has the  *)
(* projectiles proton and D+, "B" has the eta as well, and the D+ among    *)
(* the daughters of the proton.                                            *)
(***************************************************************************)
Models == {"A", "B"}

\* 'ebins': d + 1 bin edges
EBins(d) == [i \in 0 .. d |-> 2 ^ (i + 1)]

\* 'evec': d bin centres, strictly increasing
EGrid(d) == [i \in Idx(d) |-> 3 * (2 ^ i)]

\* a third model, "G", has the keys of "A" and is tabulated on another grid
\* of as many bins: centres 6, 8, 12, 20, .. between the edges 5, 7, 10, 16, ..
Files == Models \cup {"G"}

\* 'evec' of the file of a model
GridOf(model, d) ==
    IF model = "G" THEN [i \in Idx(d) |-> 2 ^ (i + 1) + 4] ELSE EGrid(d)

\* 'ebins' of the file of a model
BinsOf(model, d) ==
    IF model = "G"
    THEN [i \in 0 .. d |-> IF i = 0 THEN 5 ELSE 3 * (2 ^ (i - 1)) + 4]
    ELSE EBins(d)

\* the (projectile, daughter) keys of the raw table of a model, in the order
\* the dictionary yields them
RawKeySeq(model) ==
    <<<<2212, 211>>, <<2212, -211>>, <<2212, 321>>, <<2212, -321>>,
      <<2212, 2212>>, <<2212, -2212>>, <<2212, 130>>, <<411, 211>>>>
    \o (IF model = "B" THEN <<<<221, 211>>, <<2212, 411>>>> ELSE << >>)

RawKeys(model) == {RawKeySeq(model)[n] : n \in DOMAIN RawKeySeq(model)}

\* the unweighted matrix of a key: upper triangular, (2212, 130) all zero
RawMat(key, d) ==
    [i \in Idx(d) |-> [j \in Idx(d) |->
        IF i > j THEN 0
        ELSE CASE key = <<2212, 211>>  -> IF j >= 20 THEN 3 ELSE 2
               [] key = <<2212, -211>> -> 1
               [] key = <<2212, 321>>  -> IF i = j THEN 2 ELSE 1
               [] key = <<2212, -321>> -> IF i = 0 THEN 2 ELSE 1
               [] key = <<2212, 130>>  -> 0
               [] key = <<2212, 2212>> -> IF i = j THEN 4 ELSE 1
               [] key = <<2212, -2212>> -> IF i = j THEN 0 ELSE 1
               [] key = <<411, 211>>   -> IF i = j THEN 1 ELSE 0
               [] OTHER                -> IF i = 0 THEN 1 ELSE 0]]

\* np.diag(e_bins[1:] - e_bins[:-1]), kept as its diagonal
Weights(bins, d) == [j \in Idx(d) |-> bins[j + 1] - bins[j]]

\* weights.dot(mat): the rows scaled, not the columns
DotWeightsLeft(mat, w, d) == [i \in Idx(d) |-> [j \in Idx(d) |-> mat[i][j] * w[i]]]

\* mat.dot(weights) for a diagonal weights matrix
DotWeights(mat, w, d) == [i \in Idx(d) |-> [j \in Idx(d) |-> mat[i][j] * w[j]]]

\* _gen_index: the projectiles of the raw keys
GenProjectiles(model) == {k[1] : k \in RawKeys(model)}

\* _gen_index: the keys kept, those whose matrix has a non-zero sum
GenKeys(model, d) == {k \in RawKeys(model) : SumAll(RawMat(k, d), d) > 0}

RECURSIVE GenSecondaries(_, _, _, _)
\* _gen_index, lines 411-427: the list secondary_dict[p] after the first n keys
GenSecondaries(model, d, p, n) ==
    IF n = 0 THEN << >>
    ELSE LET key == RawKeySeq(model)[n]
             before == GenSecondaries(model, d, p, n - 1)
         IN  IF key[1] = p /\ SumAll(RawMat(key, d), d) > 0
             THEN Append(before, key[2])
             ELSE before

\* _gen_index: secondary_dict
GenSecondaryDict(model, d) ==
    [p \in GenProjectiles(model) |-> GenSecondaries(model, d, p, Len(RawKeySeq(model)))]

\* _gen_index: the weighted matrices, which _load stores as self.yields
GenYields(model, d) ==
    [k \in GenKeys(model, d) |->
        DotWeights(RawMat(k, d), Weights(BinsOf(model, d), d), d)]

(***************************************************************************)
(* _gen_mod_matrix                                                         *)
(***************************************************************************)
\* the fixed-point unit of the x_lab matrix: x = 1 is XOne(d)
XOne(d) == 2 ^ (d - 1)

\* a / b in units of 1 / XOne(d), for a <= b, rounded down: exact on the
\* grids of "A" and "B"; on the grid of "G" the rounding keeps the outcome of
\* the comparison with 1/2 the x_funcs make
XDiv(a, b, d) == LET g == GCD(a, b) IN ((a \div g) * XOne(d)) \div (b \div g)

\* lines 527-529 writing the quotient of the two energies, smaller over
\* larger, into every row of column eidx
BuildXmatSymmetric(noint, grid, d) ==
    [i \in Idx(d) |-> [j \in Idx(d) |->
        IF i <= j THEN XDiv(grid[i], grid[j], d) ELSE XDiv(grid[j], grid[i], d)]]

\* lines 526-529: self.xmat = self.no_interaction, then column eidx, rows
\* 0..eidx, is set to e_grid[:eidx + 1] / e_grid[eidx]; the other entries of
\* the array keep what it held
BuildXmat(noint, grid, d) ==
    [i \in Idx(d) |-> [j \in Idx(d) |->
        IF i <= j THEN XDiv(grid[i], grid[j], d) ELSE noint[i][j]]]

\* the functions callers pass as x_func, by __name__:
\*   f1(xmat, e_grid, a)    = a * ones(shape of xmat)
\*   f2(xmat, e_grid, a, b) = where(xmat >= 0.5, a, b)
XFunc(f, xm, grid, args, d) ==
    [i \in Idx(d) |-> [j \in Idx(d) |->
        IF f = "f1" THEN args[1]
        ELSE IF 2 * xm[i][j] >= XOne(d) THEN args[1] ELSE args[2]]]

\* lines 532-536, given the array self.xmat refers to
GenModMatrix(f, args, xm, grid, d) == ZeroTril(XFunc(f, xm, grid, args, d), d, -1)

(***************************************************************************)
(* _set_mod_pprod                                                          *)
(***************************************************************************)
\* a cache entry, the tuple (name, args, matrix)
Entry(name, args, mat) == [name |-> name, args |-> args, mat |-> mat]

\* self.mod_pprod[key] = val
Put(mp, key, val) == [k \in (DOMAIN mp) \cup {key} |-> IF k = key THEN val ELSE mp[k]]

RECURSIVE PutAll(_, _, _)
\* the for loops of lines 589-592 and 615-617
PutAll(mp, keys, val) ==
    IF keys = << >> THEN mp ELSE PutAll(Put(mp, Head(keys), val), Tail(keys), val)

\* lines 550-552: the call changes nothing
SameAsCached(mp, key, f, args) ==
    key \in DOMAIN mp /\ mp[key].name = f /\ mp[key].args = args

\* 0.5 * (a + b); the arguments averaged are the even numbers callers pass
Half(x) == x \div 2

\* lines 578-582 and 604-607: range(len(args)) indexes the other entry's args,
\* which raises IndexError when they are fewer (only TypeError is caught)
AvgRaises(args, other) == Len(other) < Len(args)

AvgArgs(args, other) == [i \in 1 .. Len(args) |-> Half(args[i] + other[i])]

Unflavored == <<<<2212, 221>>, <<2212, 223>>, <<2212, 333>>,
                <<2112, 221>>, <<2112, 223>>, <<2112, 333>>>>

NeutralKaons == <<<<2212, 310>>, <<2212, 130>>, <<2112, 310>>, <<2112, 130>>>>

\* lines 571-573
HasUnflv(projs) == \E p \in {221, 223, 333} : p \in projs

\* line 567 mirroring to the neutron with the pion's charge kept
PionMirrorKeySameSign(sec) == <<2112, sec>>

\* line 567: p -> pi+ = n -> pi-, p -> pi- = n -> pi+
PionMirrorKey(sec) == <<2112, -sec>>

\* line 597: p -> K+ ~ n -> K+, p -> K- ~ n -> K-
KaonMirrorKey(sec) == <<2112, sec>>

\* line 619, the test that selects the mirror to (2112, 2112)
IsProtonSecondary(sec) == Abs(sec) = 2212

\* lines 563-623: the entries derived by isospin symmetry, applied to the
\* cache mp that already holds the new entry of (2212, sec).
\* Gives the cache and whether the call raised.
Isospin(mp, sec, f, args, kmat, xm, grid, d, projs) ==
    LET opp == <<2212, -sec>>
    IN  IF Abs(sec) = 211 THEN
            LET mp2 == Put(mp, PionMirrorKey(sec), Entry("isospin", args, kmat))
            IN  IF ~HasUnflv(projs) THEN [mp |-> mp2, raised |-> FALSE]
                ELSE IF opp \in DOMAIN mp2 /\ AvgRaises(args, mp2[opp].args)
                THEN [mp |-> mp2, raised |-> TRUE]
                ELSE LET unflv_arg == IF opp \in DOMAIN mp2
                                      THEN AvgArgs(args, mp2[opp].args) ELSE args
                         unflmat == GenModMatrix(f, unflv_arg, xm, grid, d)
                     IN  [mp |-> PutAll(mp2, Unflavored,
                                        Entry("isospin", unflv_arg, unflmat)),
                          raised |-> FALSE]
        ELSE IF Abs(sec) = 321 THEN
            LET mp2 == Put(mp, KaonMirrorKey(sec), Entry("isospin", args, kmat))
            IN  IF opp \in DOMAIN mp2 /\ AvgRaises(args, mp2[opp].args)
                THEN [mp |-> mp2, raised |-> TRUE]
                ELSE LET k0arg == IF opp \in DOMAIN mp2
                                  THEN AvgArgs(args, mp2[opp].args) ELSE args
                         k0mat == GenModMatrix(f, k0arg, xm, grid, d)
                     IN  [mp |-> PutAll(mp2, NeutralKaons,
                                        Entry("isospin", k0arg, k0mat)),
                          raised |-> FALSE]
        ELSE IF IsProtonSecondary(sec) THEN
            [mp |-> Put(mp, <<2112, 2112>>,
                        Entry("isospin", args, mp[<<2212, sec>>].mat)),
             raised |-> FALSE]
        ELSE [mp |-> mp, raised |-> FALSE]

\* line 563
UseIsospin(cfg, prim) == cfg.use_isospin_sym /\ prim = 2212

\* _set_mod_pprod(prim, sec, x_func, args) on the cache mp, with xm the array
\* self.xmat refers to once _gen_mod_matrix has run.  Gives the cache after
\* the call, whether it returned ("ok") or raised, the value returned (val,
\* when it returned) and whether the branch of line 553 was taken (changed).
set_mod_pprod(mp, cfg, projs, xm, grid, d, prim, sec, f, args) ==
    LET key == <<prim, sec>>
    IN  IF SameAsCached(mp, key, f, args)
        THEN [mp |-> mp, status |-> "ok", val |-> FALSE, changed |-> FALSE]
        ELSE LET kmat == GenModMatrix(f, args, xm, grid, d)
                 mp1 == Put(mp, key, Entry(f, args, kmat))
                 iso == IF UseIsospin(cfg, prim)
                        THEN Isospin(mp1, sec, f, args, kmat, xm, grid, d, projs)
                        ELSE [mp |-> mp1, raised |-> FALSE]
             IN  [mp |-> iso.mp,
                  status |-> IF iso.raised THEN "IndexError" ELSE "ok",
                  val |-> ~iso.raised, changed |-> TRUE]

(***************************************************************************)
(* set_xf_band, is_yield, get_y_matrix, assign_yield_idx                   *)
(***************************************************************************)
\* lines 684-690
set_xf_band(xl_low_idx, xl_up_idx) ==
    IF xl_low_idx >= 0 /\ xl_up_idx > 0 THEN <<xl_low_idx, xl_up_idx>> ELSE None

InSeq(x, seq) == \E n \in DOMAIN seq : seq[n] = x

\* lines 708-716
is_yield(projs, secdict, projectile, daughter) ==
    projectile \in projs /\ InSeq(daughter, secdict[projectile])

\* lines 735-737
CharmDisabled(cfg, projectile) ==
    /\ cfg.disable_charm_pprod
    /\ \/ (Abs(projectile) > 400 /\ Abs(projectile) < 500)
       \/ (Abs(projectile) > 4000 /\ Abs(projectile) < 5000)

\* line 755 and the window ie - 30 : ie of lines 759-761
ie == 50

VetoWidth == 30

\* np.sum(m[:, ie - 30:ie])
Leading(m, d) == SumCols(m, d, ie - VetoWidth, ie)

\* line 761 with >= in place of >
VetoInvertsOnTie(m, manti, d) == Leading(m, d) - Leading(manti, d) >= 0

\* line 761: the daughter's matrix is replaced by the antiparticle's
VetoInverts(m, manti, d) == Leading(m, d) - Leading(manti, d) > 0

\* lines 747-766: the key of the stored matrix that m refers to
VetoKey(ys, cfg, d, projectile, daughter) ==
    IF /\ cfg.disable_leading_mesons
       /\ Abs(daughter) < 2000
       /\ <<projectile, -daughter>> \in DOMAIN ys
       /\ VetoInverts(ys[<<projectile, daughter>>], ys[<<projectile, -daughter>>], d)
    THEN <<projectile, -daughter>>
    ELSE <<projectile, daughter>>

\* lines 782-783 done on the stored array itself, without np.copy
ScaleInPlace(ys, src, modmat, d) ==
    LET m == Times(ys[src], modmat, d)
    IN  [val |-> m, yields |-> [ys EXCEPT ![src] = m], src |-> src]

\* lines 782-783: m = np.copy(m); m *= modification matrix.
\* Gives the array m now refers to, the store, and the key of the stored
\* array m still refers to (None for a private copy).
Scale(ys, src, modmat, d) ==
    [val |-> Times(ys[src], modmat, d), yields |-> ys, src |-> None]

\* the entries lines 790 and 792 zero
BandMask(m, d, b) == ZeroTriu(ZeroTril(m, d, d - b[2] - 1), d, d - b[1])

\* lines 789-792 done on the array m refers to, without np.copy
MaskInPlace(ys, src, m, d, b) ==
    [val |-> BandMask(m, d, b),
     yields |-> IF src = None THEN ys ELSE [ys EXCEPT ![src] = BandMask(m, d, b)]]

\* lines 789-792: m = np.copy(m), then the entries outside the band are zeroed
Mask(ys, src, m, d, b) == [val |-> BandMask(m, d, b), yields |-> ys]

\* get_y_matrix(projectile, daughter): the outcome, the matrix returned and
\* the store after the call
get_y_matrix(ys, cfg, noint, mp, b, d, projectile, daughter) ==
    IF CharmDisabled(cfg, projectile)
    THEN [status |-> "ok", val |-> noint, yields |-> ys]
    ELSE IF <<projectile, daughter>> \notin DOMAIN ys
    THEN [status |-> "KeyError", val |-> None, yields |-> ys]
    ELSE LET src0 == VetoKey(ys, cfg, d, projectile, daughter)
             s == IF <<projectile, daughter>> \in DOMAIN mp
                  THEN Scale(ys, src0, mp[<<projectile, daughter>>].mat, d)
                  ELSE [val |-> ys[src0], yields |-> ys, src |-> src0]
             r == IF b = None
                  THEN [val |-> s.val, yields |-> s.yields]
                  ELSE Mask(s.yields, s.src, s.val, d, b)
         IN  [status |-> "ok", val |-> r.val, yields |-> r.yields]

\* the slice taken with its upper index included
InSliceInclusive(i, rng, d) == 0 <= i /\ i < d /\ rng[1] <= i /\ i <= rng[2]

\* i lies in python's slice rng[0]:rng[1] of an axis of length d
InSlice(i, rng, d) == 0 <= i /\ i < d /\ rng[1] <= i /\ i < rng[2]

\* lines 808-810
assign_yield_idx(ys, cfg, noint, mp, b, d, projectile, projidx, daughter, dtridx, target) ==
    LET r == get_y_matrix(ys, cfg, noint, mp, b, d, projectile, daughter)
    IN  IF r.status # "ok"
        THEN [status |-> r.status, cmat |-> target, yields |-> r.yields]
        ELSE [status |-> "ok",
              cmat |-> [i \in Idx(d) |-> [j \in Idx(d) |->
                          IF InSlice(i, dtridx, d) /\ InSlice(j, projidx, d)
                          THEN r.val[i][j] ELSE target[i][j]]],
              yields |-> r.yields]

(***************************************************************************)
(* set_interaction_model                                                   *)
(***************************************************************************)
\* the names callers pass: "a-" is another spelling of "A", "C" has no file
ModelNames == {"A", "a-", "B", "C"}

\* misc.normalize_hadronic_model_name: dashes and points removed, upper case
Normalize(name) == IF name = "a-" THEN "A" ELSE name

\* line 657 with the comparison inverted
NoReloadInverted(interaction_model, force, cur) ==
    ~force /\ interaction_model # cur

\* line 657: the model is already loaded and no reload is forced
NoReload(interaction_model, force, cur) ==
    ~force /\ interaction_model = cur

\* lines 346-353: a yields file exists for the model
HasFile(interaction_model) == interaction_model \in Files

(***************************************************************************)
(* The state after InteractionYields.__init__ and the calls made on it     *)
(***************************************************************************)
Configs == [use_isospin_sym : BOOLEAN, disable_charm_pprod : BOOLEAN,
            disable_leading_mesons : BOOLEAN]

NoCall == [op |-> "__init__", args |-> << >>, status |-> "ok", val |-> None]

NoHist == [unbanded |-> None, pure |-> FALSE, masked |-> FALSE]

\* __init__ (lines 278-308) followed by _load (lines 359-370) of a model
\* whose grid has d bins, under the configuration cfg
Loaded(cfg, model, d) ==
    /\ config = cfg
    /\ iam = model
    /\ dim = d
    /\ e_grid = GridOf(model, d)
    /\ e_bins = BinsOf(model, d)
    /\ projectiles = GenProjectiles(model)
    /\ secondary_dict = GenSecondaryDict(model, d)
    /\ yields = GenYields(model, d)
    /\ no_interaction = Zeros(d)
    /\ xmat = None
    /\ mod_pprod = << >>
    /\ band = None
    /\ ret = NoCall
    /\ ncalls = 0
    /\ hist = NoHist
    /\ charm_model = NoName

\* the pairs callers ask get_y_matrix for: the registered ones, pairs of a
\* registered projectile that are not registered, and the eta of model "B"
QueryPairs == {<<2212, 211>>, <<2212, -211>>, <<2212, 321>>, <<2212, -321>>,
               <<2212, 2212>>, <<2212, -2212>>, <<2212, 130>>, <<411, 211>>,
               <<411, 321>>, <<221, 211>>}

\* what get_y_matrix returns for every pair in the current state
Answers(ys, cfg, noint, mp, b, d) ==
    [k \in QueryPairs \cup {<<2112, 211>>} |->
        get_y_matrix(ys, cfg, noint, mp, b, d, k[1], k[2]).val]

\* _set_mod_pprod(prim, sec, x_func, args), at most limit calls
SetModPprod(prim, sec, f, args, limit) ==
    /\ ncalls < limit
    /\ LET \* line 525-529: built on the first _gen_mod_matrix call, in the
           \* array self.no_interaction refers to
           xm == IF xmat = None THEN BuildXmat(no_interaction, e_grid, dim) ELSE xmat
           r == set_mod_pprod(mod_pprod, config, projectiles, xm, e_grid, dim,
                              prim, sec, f, args)
       IN  /\ mod_pprod' = r.mp
           /\ xmat' = IF r.changed THEN xm ELSE xmat
           /\ no_interaction' = IF r.changed /\ xmat = None THEN xm ELSE no_interaction
           /\ ret' = [op |-> "_set_mod_pprod", args |-> <<prim, sec, f, args>>,
                      status |-> r.status, val |-> r.val, changed |-> r.changed,
                      before |-> mod_pprod]
    /\ ncalls' = ncalls + 1
    /\ hist' = NoHist
    /\ UNCHANGED <<config, iam, dim, e_grid, e_bins, projectiles,
                   secondary_dict, yields, band, charm_model>>
    /\ UNCHANGED others

\* set_xf_band(xl_low_idx, xl_up_idx)
SetXfBand(lo, hi) ==
    /\ band' = set_xf_band(lo, hi)
    /\ ret' = [op |-> "set_xf_band", args |-> <<lo, hi>>, status |-> "ok", val |-> None]
    /\ hist' = IF band = None /\ band' # None
               THEN [unbanded |-> Answers(yields, config, no_interaction, mod_pprod,
                                          band, dim),
                     pure |-> TRUE, masked |-> FALSE]
               ELSE hist
    /\ UNCHANGED <<config, iam, dim, e_grid, e_bins, projectiles, secondary_dict,
                   yields, no_interaction, xmat, mod_pprod, ncalls, charm_model>>
    /\ UNCHANGED others

\* get_y_matrix(projectile, daughter)
GetYMatrix(projectile, daughter) ==
    /\ LET r == get_y_matrix(yields, config, no_interaction, mod_pprod, band, dim,
                             projectile, daughter)
       IN  /\ yields' = r.yields
           /\ ret' = [op |-> "get_y_matrix", args |-> <<projectile, daughter>>,
                      status |-> r.status, val |-> r.val]
           /\ hist' = IF hist.pure /\ band # None
                         /\ r.val # hist.unbanded[<<projectile, daughter>>]
                      THEN [hist EXCEPT !.masked = TRUE]
                      ELSE hist
    /\ UNCHANGED <<config, iam, dim, e_grid, e_bins, projectiles, secondary_dict,
                   no_interaction, xmat, mod_pprod, band, ncalls, charm_model>>
    /\ UNCHANGED others

\* the caller's target arrays
Targets(d) == {Zeros(d), [i \in Idx(d) |-> [j \in Idx(d) |-> 7]]}

\* the index ranges callers pass: a leading and a trailing part of the grid
Ranges(d) == {<<0, d - 1>>, <<1, d>>}

\* assign_yield_idx(projectile, projidx, daughter, dtridx, cmat)
AssignYieldIdx(projectile, projidx, daughter, dtridx, target) ==
    /\ LET r == assign_yield_idx(yields, config, no_interaction, mod_pprod, band, dim,
                                 projectile, projidx, daughter, dtridx, target)
       IN  /\ yields' = r.yields
           /\ ret' = [op |-> "assign_yield_idx",
                      args |-> <<projectile, projidx, daughter, dtridx, target>>,
                      status |-> r.status, val |-> r.cmat]
    /\ UNCHANGED <<config, iam, dim, e_grid, e_bins, projectiles, secondary_dict,
                   no_interaction, xmat, mod_pprod, band, ncalls, hist, charm_model>>
    /\ UNCHANGED others

\* what set_interaction_model finds when it is called
Snapshot ==
    [iam |-> iam, dim |-> dim, e_grid |-> e_grid, e_bins |-> e_bins,
     projectiles |-> projectiles, secondary_dict |-> secondary_dict,
     yields |-> yields, mod_pprod |-> mod_pprod, band |-> band,
     charm_model |-> charm_model]

\* set_interaction_model(interaction_model, force): returns False without
\* loading, or calls _load (lines 359-372), which raises when there is no
\* file and otherwise replaces the grid, the index, the store, the array
\* no_interaction and charm_model; xmat, mod_pprod and band are not touched.
\* Every model is tabulated on a grid of dim bins.
SetInteractionModel(name, force) ==
    LET nm == Normalize(name)
        skip == NoReload(nm, force, iam)
        load == ~skip /\ HasFile(nm)
    IN  /\ ret' = [op |-> "set_interaction_model", args |-> <<name, force>>,
                   status |-> IF skip \/ load THEN "ok" ELSE "Exception",
                   val |-> IF skip THEN FALSE ELSE IF load THEN TRUE ELSE None,
                   loaded |-> load, before |-> Snapshot]
        /\ iam' = IF load THEN nm ELSE iam
        /\ e_grid' = IF load THEN GridOf(nm, dim) ELSE e_grid
        /\ e_bins' = IF load THEN BinsOf(nm, dim) ELSE e_bins
        /\ projectiles' = IF load THEN GenProjectiles(nm) ELSE projectiles
        /\ secondary_dict' = IF load THEN GenSecondaryDict(nm, dim) ELSE secondary_dict
        /\ yields' = IF load THEN GenYields(nm, dim) ELSE yields
        /\ no_interaction' = IF load THEN Zeros(dim) ELSE no_interaction
        /\ charm_model' = IF load THEN NoName ELSE charm_model
        /\ hist' = IF load THEN NoHist ELSE hist
        /\ UNCHANGED <<config, dim, xmat, mod_pprod, band, ncalls>>
        /\ UNCHANGED others

(***************************************************************************)
(* _inject_custom_charm_model                                              *)
(***************************************************************************)
\* charm_modids, lines 839-842: the PDG IDs SibyllParticleTable lists with
\* |modid| >= 59, here the D+, the D- and the D0
CharmModIds == <<411, -411, 421>>

CharmIdSet == {CharmModIds[n] : n \in DOMAIN CharmModIds}

\* mrs.get_yield_matrix(proj, chid), whr.get_yield_matrix(proj, chid): an
\* upper triangular matrix that depends on the charm model and the daughter
CharmYield(model, proj, chid, d) ==
    [i \in Idx(d) |-> [j \in Idx(d) |->
        IF i > j THEN 0
        ELSE (IF model = "MRS" THEN 1 ELSE 3) + (IF chid = 421 THEN 1 ELSE 0)]]

\* lines 846-852: the index without the charm daughters
StripCharm(sd) ==
    [proj \in DOMAIN sd |-> SelectSeq(sd[proj], LAMBDA idx : idx \notin CharmIdSet)]

\* lines 861, 876: every charm ID appended to the list of every projectile
AppendCharm(sd, projs) ==
    [proj \in DOMAIN sd |-> IF proj \in projs THEN sd[proj] \o CharmModIds ELSE sd[proj]]

\* lines 857-860, 872-874: the store with the matrix of every (projectile,
\* charm ID) replaced by the one of the charm model, times the weights
InjectYields(ys, model, projs, bins, d) ==
    [k \in DOMAIN ys \cup (projs \X CharmIdSet) |->
        IF k \in projs \X CharmIdSet
        THEN DotWeights(CharmYield(model, k[1], k[2], d), Weights(bins, d), d)
        ELSE ys[k]]

\* the names the code has a branch for
CharmBranches == {"MRS", "WHR", "sibyll23_pl"}

\* _inject_custom_charm_model(model).  A call with another model than the
\* injected one first reloads the yields (line 836).  The index loses its
\* charm daughters (line 852) before the name is looked at: 'MRS' and 'WHR'
\* write the store and the index and set charm_model, 'sibyll23_pl' reads
\* self.yield_dict, which no method sets (line 888), any other name raises
\* NotImplementedError (line 894).
InjectCustomCharmModel(model) ==
    LET reload == charm_model # NoName /\ charm_model # model
        sd0 == IF reload THEN GenSecondaryDict(iam, dim) ELSE secondary_dict
        ys0 == IF reload THEN GenYields(iam, dim) ELSE yields
        sd1 == StripCharm(sd0)
        done == model \in {"MRS", "WHR"}
    IN  IF model = NoName
        THEN /\ ret' = [op |-> "_inject_custom_charm_model", args |-> <<model>>,
                        status |-> "ok", val |-> None, before |-> Snapshot]
             /\ UNCHANGED <<config, iam, dim, e_grid, e_bins, projectiles,
                            secondary_dict, yields, no_interaction, xmat,
                            mod_pprod, band, ncalls, hist, charm_model>>
             /\ UNCHANGED others
        ELSE /\ ret' = [op |-> "_inject_custom_charm_model", args |-> <<model>>,
                        status |-> IF done THEN "ok"
                                   ELSE IF model = "sibyll23_pl" THEN "AttributeError"
                                   ELSE "NotImplementedError",
                        val |-> None, before |-> Snapshot]
             /\ secondary_dict' = IF done THEN AppendCharm(sd1, projectiles) ELSE sd1
             /\ yields' = IF done
                          THEN InjectYields(ys0, model, projectiles, e_bins, dim)
                          ELSE ys0
             /\ charm_model' = IF done THEN model
                               ELSE IF reload THEN NoName ELSE charm_model
             /\ no_interaction' = IF reload THEN Zeros(dim) ELSE no_interaction
             /\ hist' = IF reload THEN NoHist ELSE hist
             /\ UNCHANGED <<config, iam, dim, e_grid, e_bins, projectiles, xmat,
                            mod_pprod, band, ncalls>>
             /\ UNCHANGED others

\* the names callers pass as charm model
CharmModelNames == {NoName, "MRS", "WHR", "sibyll23_pl", "XYZ"}

\* the pairs callers ask assign_yield_idx for
AssignPairs == {<<2212, 211>>, <<411, 211>>, <<2212, 130>>}

\* the pairs asked for on the large grid
VetoPairs == {<<2212, 211>>, <<2212, -211>>, <<2212, 321>>, <<2212, 2212>>,
              <<2212, 130>>, <<411, 211>>}

\* the x_func and args callers pass: the arguments are even numbers
FArgs == {<<"f1", <<2>>>>, <<"f2", <<2, 4>>>>, <<"f2", <<4, 0>>>>}

BandLows == {-1, 0, 1}

BandUps == {0, MaxBandIdx - 1, MaxBandIdx}

(***************************************************************************)
(* Spec: the lookups on a small grid, with the cache filled for the        *)
(* registered pairs                                                        *)
(***************************************************************************)
Init ==
    \E cfg \in Configs :
        /\ cfg.use_isospin_sym
        /\ ~cfg.disable_leading_mesons
        /\ Loaded(cfg, "B", DimSmall)
        /\ NoOthers

Next ==
    \/ \E prim \in {2212, 411}, sec \in {211, -211}, fa \in FArgs \ {<<"f2", <<4, 0>>>>} :
           SetModPprod(prim, sec, fa[1], fa[2], MaxGetModCalls)
    \/ \E lo \in BandLows, hi \in BandUps : SetXfBand(lo, hi)
    \/ \E k \in QueryPairs : GetYMatrix(k[1], k[2])
    \/ \E k \in AssignPairs, pr \in Ranges(dim), t \in Targets(dim) :
           AssignYieldIdx(k[1], pr, k[2], <<1, dim>>, t)

Spec == Init /\ [][Next]_vars

(***************************************************************************)
(* SpecMod: the modification cache alone, every kind of secondary          *)
(***************************************************************************)
InitMod ==
    \E cfg \in Configs, model \in Models :
        /\ ~cfg.disable_charm_pprod
        /\ ~cfg.disable_leading_mesons
        /\ Loaded(cfg, model, DimSmall)
        /\ NoOthers

NextMod ==
    \E prim \in {2212, 2112}, sec \in {211, -211, 321, -321, 2212, -2212},
       fa \in FArgs :
        SetModPprod(prim, sec, fa[1], fa[2], MaxModCalls)

SpecMod == InitMod /\ [][NextMod]_vars

(***************************************************************************)
(* SpecVeto: the lookups on a grid that reaches the veto's window          *)
(***************************************************************************)
InitVeto ==
    \E cfg \in Configs :
        /\ ~cfg.use_isospin_sym
        /\ Loaded(cfg, "A", DimVeto)
        /\ NoOthers

NextVeto ==
    \/ \E sec \in {211, 2212} :
           SetModPprod(2212, sec, "f2", <<2, 4>>, MaxGetModCalls)
    \/ \E hi \in BandUps : SetXfBand(0, hi)
    \/ \E k \in VetoPairs : GetYMatrix(k[1], k[2])
    \/ \E t \in Targets(dim) :
           AssignYieldIdx(2212, <<0, dim - 1>>, 211, <<1, dim>>, t)

SpecVeto == InitVeto /\ [][NextVeto]_vars

(***************************************************************************)
(* DecayYields                                                             *)
(***************************************************************************)
\* the decay tables: "P" holds the decays of muons, charged pions and the
\* neutral pion (whose matrix is all zero); "Q" has in addition a raw entry
\* under the alias ID 7013
DecayTables == {"P", "Q"}

\* the (mother, daughter) keys of a raw decay table, in dictionary order
DecayKeySeq(table) ==
    <<<<13, 11>>, <<13, -12>>, <<13, 14>>, <<-13, -11>>, <<-13, 12>>,
      <<211, -13>>, <<211, 14>>, <<-211, 13>>, <<111, 22>>>>
    \o (IF table = "Q" THEN <<<<7013, 11>>, <<7013, 22>>>> ELSE << >>)

DecayKeys(table) == {DecayKeySeq(table)[n] : n \in DOMAIN DecayKeySeq(table)}

\* the raw matrix of a key, row = mother bin, column = daughter bin
DecayRawMat(key, d) ==
    [i \in Idx(d) |-> [j \in Idx(d) |->
        IF j > i THEN 0
        ELSE CASE key = <<111, 22>> -> 0
               [] key[1] = 7013     -> 9
               [] key[1] = 13       -> Abs(key[2]) - 10 + i
               [] key[1] = -13      -> Abs(key[2]) - 9
               [] OTHER             -> 1 + j]]

\* (mat.T).dot(weights), line 1090
TransposeDotWeights(mat, w, d) == [i \in Idx(d) |-> [j \in Idx(d) |-> mat[j][i] * w[j]]]

\* lines 1055-1062
DecayGenMothers(table) == {k[1] : k \in DecayKeys(table)}

RECURSIVE DecayGenDaughters(_, _, _, _)
\* lines 1075-1090: the list daughter_dict[mother] after the first n keys
DecayGenDaughters(table, d, mother, n) ==
    IF n = 0 THEN << >>
    ELSE LET key == DecayKeySeq(table)[n]
             before == DecayGenDaughters(table, d, mother, n - 1)
         IN  IF key[1] = mother /\ SumAll(DecayRawMat(key, d), d) > 0
                /\ ~InSeq(key[2], before)
             THEN Append(before, key[2])
             ELSE before

\* line 1096
Aliases == {7013, 7113, 7213, 7313}

\* lines 1096-1103: the mother whose daughter list and matrices the
\* mother m is given
AliasOf(m) ==
    IF m \in Aliases THEN 13 ELSE IF -m \in Aliases THEN -13 ELSE m

\* _gen_index, daughter_dict
DecayGenDaughterDict(table, d) ==
    LET all(m) == DecayGenDaughters(table, d, m, Len(DecayKeySeq(table)))
    IN  [m \in DecayGenMothers(table) \cup Aliases \cup {-a : a \in Aliases} |->
            all(AliasOf(m))]

\* _gen_index, the matrices of new_dict
DecayGenDict(table, d) ==
    LET dd == DecayGenDaughterDict(table, d)
        kept == {k \in DecayKeys(table) : SumAll(DecayRawMat(k, d), d) > 0}
        aliased == UNION {{<<m, dd[m][n]>> : n \in DOMAIN dd[m]} :
                              m \in {x \in DOMAIN dd : AliasOf(x) # x}}
    IN  [k \in kept \cup aliased |->
            LET src == IF k \in aliased THEN <<AliasOf(k[1]), k[2]>> ELSE k
            IN  TransposeDotWeights(DecayRawMat(src, d), Weights(EBins(d), d), d)]

\* lines 1027-1029: compact mode removes the mother p from the index
CompactDrops(p, mother_list) ==
    ~InSeq(Abs(p), mother_list) /\ Abs(p) \notin {7113, 7213, 7313}

\* DecayYields._load: the object after the load, or the error it raised.
\* mother_list is None or a sequence of IDs.
decay_load(table, d, mother_list, compact_mode, disable_decays) ==
    LET dd0 == DecayGenDaughterDict(table, d)
        \* lines 1013-1017: dict.pop raises KeyError for a missing key
        missing == {m \in disable_decays : m \notin DOMAIN dd0}
        dd1 == [m \in (DOMAIN dd0) \ disable_decays |-> dd0[m]]
        dd2 == IF mother_list # None /\ compact_mode
               THEN [m \in {p \in DOMAIN dd1 : ~CompactDrops(p, mother_list)} |-> dd1[m]]
               ELSE dd1
    IN  IF missing # {}
        THEN [status |-> "KeyError", daughter_dict |-> << >>, decay_dict |-> << >>,
              mothers |-> {}, disable_decays |-> disable_decays]
        ELSE [status |-> "ok", daughter_dict |-> dd2,
              decay_dict |-> DecayGenDict(table, d),
              mothers |-> DOMAIN dd2, disable_decays |-> disable_decays]

\* lines 1211-1217
daughters(dd, mother) == IF mother \notin DOMAIN dd THEN << >> ELSE dd[mother]

\* lines 1198-1202
is_daughter(dd, mother, daughter) ==
    ~(mother \notin DOMAIN dd \/ ~InSeq(daughter, dd[mother]))

\* line 1169
get_d_matrix(dict, mother, daughter) ==
    IF <<mother, daughter>> \in DOMAIN dict
    THEN [status |-> "ok", val |-> dict[<<mother, daughter>>]]
    ELSE [status |-> "KeyError", val |-> None]

\* the variables of InteractionYields
yvars == <<config, iam, dim, e_grid, e_bins, projectiles, secondary_dict,
           yields, no_interaction, xmat, mod_pprod, band, ncalls, hist,
           charm_model>>

\* DecayYields(mother_list), under the configuration entries compact_mode
\* and adv_set.disable_decays
DecayYieldsInit(table, mother_list, compact_mode, disable_decays) ==
    /\ decay = None
    /\ decay' = decay_load(table, dim, mother_list, compact_mode, disable_decays)
    /\ ret' = [op |-> "DecayYields",
               args |-> <<table, mother_list, compact_mode, disable_decays>>,
               status |-> decay'.status, val |-> None]
    /\ UNCHANGED <<yvars, cs, particle>>

Constructed(obj) == obj # None /\ obj.status = "ok"

\* daughters(mother)
Daughters(mother) ==
    /\ Constructed(decay)
    /\ ret' = [op |-> "daughters", args |-> <<mother>>, status |-> "ok",
               val |-> daughters(decay.daughter_dict, mother)]
    /\ UNCHANGED <<yvars, decay, cs, particle>>

\* is_daughter(mother, daughter)
IsDaughter(mother, daughter) ==
    /\ Constructed(decay)
    /\ ret' = [op |-> "is_daughter", args |-> <<mother, daughter>>, status |-> "ok",
               val |-> is_daughter(decay.daughter_dict, mother, daughter)]
    /\ UNCHANGED <<yvars, decay, cs, particle>>

\* get_d_matrix(mother, daughter)
GetDMatrix(mother, daughter) ==
    /\ Constructed(decay)
    /\ LET r == get_d_matrix(decay.decay_dict, mother, daughter)
       IN  ret' = [op |-> "get_d_matrix", args |-> <<mother, daughter>>,
                   status |-> r.status, val |-> r.val]
    /\ UNCHANGED <<yvars, decay, cs, particle>>

\* the mother lists passed: none, the mothers of a model with muons, and
\* the hadrons alone
MotherLists == {None, <<211, 13, 7013>>, <<211, 111>>}

\* the values of config["adv_set"]["disable_decays"]
DisableSets == {{}, {211}, {13}, {-13, 13}, {7013}, {2212}, {111, 22}}

\* the species asked about
DecaySpecies == {13, -13, 7013, -7013, 7113, -7313, 211, -211, 111, 2212, 22}

(***************************************************************************)
(* SpecDecay: the decay index under every load configuration               *)
(***************************************************************************)
InitDecay ==
    /\ Loaded([use_isospin_sym |-> FALSE, disable_charm_pprod |-> FALSE,
               disable_leading_mesons |-> FALSE], "A", DimSmall)
    /\ NoOthers

NextDecay ==
    \/ \E table \in DecayTables, ml \in MotherLists, cm \in BOOLEAN,
          dis \in DisableSets : DecayYieldsInit(table, ml, cm, dis)
    \/ \E m \in DecaySpecies : Daughters(m)
    \/ \E m \in {13, 7013, 211, 2212}, d \in {11, 14, -13} : IsDaughter(m, d)
    \/ \E m \in {13, -13, 7013, -7113}, d \in {11, 14, 12} : GetDMatrix(m, d)

SpecDecay == InitDecay /\ [][NextDecay]_vars

(***************************************************************************)
(* HadAirCrossSections                                                     *)
(***************************************************************************)
\* the projectiles tabulated for a model in the cross-section file: pion,
\* kaon and nucleon; model "B" tabulates the D+ as well
CsKeys(model) == {211, 321, 2212} \cup (IF model = "B" THEN {411} ELSE {})

\* self.cs_dict[model]: the cross-section vectors in mbarn, all positive
CsDict(model, d) ==
    [id \in CsKeys(model) |-> [i \in Idx(d) |->
        (CASE id = 211 -> 1 [] id = 321 -> 2 [] id = 2212 -> 3 [] OTHER -> 5)
        + (IF model = "B" THEN 0 ELSE i)]]

\* scale * vector: the vector in mbarn and the power of ten of the scale
\* (mbarn2cm2 = GeVcm**2 / GeV2mbarn = 1e-27)
Scaled(vec, mbarn) ==
    [status |-> "ok", shape |-> "vector", val |-> vec,
     exp10 |-> IF mbarn THEN 0 ELSE -27]

\* self.cs[id]
CsLookup(table, id, mbarn) ==
    IF id \in DOMAIN table THEN Scaled(table[id], mbarn)
    ELSE [status |-> "KeyError", shape |-> "none", val |-> None, exp10 |-> 0]

\* get_cs(projectile, mbarn), lines 1364-1393
get_cs(table, projectile, mbarn) ==
    IF Abs(projectile) \in DOMAIN table THEN CsLookup(table, projectile, mbarn)
    ELSE IF Abs(projectile) \in {411, 421, 431, 15} THEN CsLookup(table, 321, mbarn)
    ELSE IF Abs(projectile) \in {4332, 4232, 4132} THEN CsLookup(table, 2212, mbarn)
    ELSE IF Abs(projectile) = 22 THEN CsLookup(table, 211, mbarn)
    ELSE IF Abs(projectile) > 2000 /\ Abs(projectile) < 5000
         THEN CsLookup(table, 2212, mbarn)
    ELSE IF (10 < Abs(projectile) /\ Abs(projectile) < 17)
            \/ (7000 < Abs(projectile) /\ Abs(projectile) < 7500)
         THEN [status |-> "ok", shape |-> "scalar", val |-> 0, exp10 |-> 0]
    ELSE CsLookup(table, 211, mbarn)

\* HadAirCrossSections(interaction_model), lines 1245-1258 and 1332-1348
CsObject(model, d) == [status |-> "ok", iam |-> model, cs |-> CsDict(model, d)]

\* HadAirCrossSections.set_interaction_model(interaction_model)
CsSetInteractionModel(name) ==
    /\ Constructed(cs)
    /\ LET nm == Normalize(name)
       IN  /\ cs' = IF nm \in Models THEN CsObject(nm, dim) ELSE cs
           /\ ret' = [op |-> "cs.set_interaction_model", args |-> <<name>>,
                      status |-> IF nm \in Models THEN "ok" ELSE "Exception",
                      val |-> None]
    /\ UNCHANGED <<yvars, decay, particle>>

\* get_cs(projectile, mbarn)
GetCs(projectile, mbarn) ==
    /\ Constructed(cs)
    /\ LET r == get_cs(cs.cs, projectile, mbarn)
       IN  ret' = [op |-> "get_cs", args |-> <<projectile, mbarn>>,
                   status |-> r.status, val |-> r]
    /\ UNCHANGED <<yvars, decay, cs, particle>>

(***************************************************************************)
(* MCEqParticle                                                            *)
(***************************************************************************)
\* np.inf
Inf == -1

\* pythia_db.ctau(pdgid) / pythia_db.mass(pdgid): 0 when ctau is 0 (the
\* division of line 145 raises ZeroDivisionError), Inf for a stable particle
Lifetimes == {0, 1, 2, Inf}

\* MCEqParticle(pdgid, particle_db, pythia_db, cs_db, d), lines 48-98
NewParticle(pdgid, ctau, d, cross_over, exclude) ==
    [status |-> "ok", pdgid |-> pdgid, d |-> d, ctau |-> ctau,
     E_mix |-> 0, mix_idx |-> 0, is_mixed |-> FALSE, is_resonance |-> FALSE,
     hybrid_crossover |-> cross_over, exclude_from_mixing |-> exclude]

\* hadridx() starting one bin after the transition
hadridxAfter(p) == <<p.mix_idx + 1, p.d>>

\* hadridx(), residx()
hadridx(p) == <<p.mix_idx, p.d>>

residx(p) == <<0, p.mix_idx>>

\* 1 / inverse_decay_length(E): Inf where the inverse is 0, 0 where the
\* inverse is infinite.  Lines 144-150, cut = True.
decay_length(p, E) ==
    [i \in Idx(p.d) |->
        IF p.ctau = 0 THEN 0
        ELSE IF p.ctau = Inf THEN Inf
        ELSE IF i < p.mix_idx THEN Inf
        ELSE p.ctau * E[i]]

\* ldec / lint, lines 208-211: the cross-section is in units that absorb
\* m_target, max_density is a natural number
Threshold(p, E, sigma, max_density) ==
    LET d_tilde == decay_length(p, E)
    IN  [i \in Idx(p.d) |->
            IF d_tilde[i] = Inf THEN Inf ELSE d_tilde[i] * max_density * sigma[i]]

\* np.max(threshold) < cross_over
MaxBelow(thr, d, c) == \A i \in Idx(d) : thr[i] # Inf /\ thr[i] < c

\* np.min(threshold) > cross_over
MinAbove(thr, d, c) == \A i \in Idx(d) : thr[i] = Inf \/ thr[i] > c

\* np.where(threshold > cross_over)[0]
WhereAbove(thr, d, c) == {i \in Idx(d) : thr[i] = Inf \/ thr[i] > c}

SetMin(S) == CHOOSE x \in S : \A y \in S : x <= y

\* line 197 testing the proton alone
IsNucleonProtonOnly(pdgid) == Abs(pdgid) = 2212

\* line 197
IsNucleon(pdgid) == Abs(pdgid) \in {2212, 2112}

\* lines 215-219 without the reset of is_mixed
PureResonanceKeepMixed(p, E) ==
    [p EXCEPT !.mix_idx = p.d - 1, !.E_mix = E[p.d - 1], !.is_resonance = TRUE]

\* lines 215-219
PureResonance(p, E) ==
    [p EXCEPT !.mix_idx = p.d - 1, !.E_mix = E[p.d - 1],
              !.is_mixed = FALSE, !.is_resonance = TRUE]

\* lines 204-207 and 221-224
PureHadron(p) == [p EXCEPT !.mix_idx = 0, !.is_mixed = FALSE, !.is_resonance = FALSE]

\* calculate_mixing_energy(e_grid, no_mix, max_density) on the particle p
\* whose cs_db holds table: the particle after the call and how it ended
calculate_mixing_energy(p, table, E, no_mix, max_density) ==
    IF IsNucleon(p.pdgid)
    THEN [p EXCEPT !.mix_idx = 0, !.is_mixed = FALSE]
    ELSE LET sig == get_cs(table, p.pdgid, FALSE)
             inv_declen == decay_length(p, E)
         IN  IF sig.status # "ok" THEN [p EXCEPT !.status = sig.status]
             ELSE IF \/ \A i \in Idx(p.d) : inv_declen[i] = Inf
                     \/ sig.shape = "scalar"
                     \/ \A i \in Idx(p.d) : sig.val[i] <= 0
                     \/ Abs(p.pdgid) \in p.exclude_from_mixing
             THEN PureHadron(p)
             ELSE LET thr == Threshold(p, E, sig.val, max_density)
                      c == p.hybrid_crossover
                  IN  IF MaxBelow(thr, p.d, c) THEN PureResonance(p, E)
                      ELSE IF MinAbove(thr, p.d, c) \/ no_mix THEN PureHadron(p)
                      ELSE IF WhereAbove(thr, p.d, c) = {}
                      THEN [p EXCEPT !.status = "IndexError"]
                      ELSE LET k == SetMin(WhereAbove(thr, p.d, c))
                           IN  [p EXCEPT !.mix_idx = k, !.E_mix = E[k],
                                         !.is_mixed = TRUE, !.is_resonance = FALSE]

\* calculate_mixing_energy(e_grid, no_mix, max_density); a call that raises
\* leaves the particle as it was.  repeat records that the call before was
\* the same call, with the same arguments, and returned.
CalculateMixingEnergy(no_mix, max_density) ==
    /\ Constructed(particle) /\ Constructed(cs)
    /\ LET r == calculate_mixing_energy(particle, cs.cs, e_grid, no_mix, max_density)
       IN  /\ particle' = IF r.status = "ok" THEN r ELSE particle
           /\ ret' = [op |-> "calculate_mixing_energy",
                      args |-> <<no_mix, max_density>>,
                      status |-> r.status, val |-> None,
                      before |-> particle, table |-> cs.cs,
                      repeat |-> /\ ret.op = "calculate_mixing_energy"
                                 /\ ret.status = "ok"
                                 /\ ret.args = <<no_mix, max_density>>]
    /\ UNCHANGED <<yvars, decay, cs>>

\* the species: nucleons and antinucleons, pions of both charges, the K+,
\* the D+, a muon, a Lambda
PdgIds == {2212, -2212, 2112, -2112, 211, -211, 321, 411, 13, 3122}

\* the sizes d of the grid the particle is created for: one bin, and the
\* grid of the other specifications
ParticleDims == {1, DimSmall}

\* the values of config["hybrid_crossover"]
CrossOvers == {2, 12, 36, 40}

\* the values of max_density passed
Densities == {1, 2}

\* the projectiles get_cs is asked for
CsProjectiles == {211, -211, 321, 2212, 2112, 411, -421, 15, 4132, 22, 3122, 13, -14,
                  7013, 111, 5122}

(***************************************************************************)
(* SpecParticle: the cross-sections and the classification of one particle *)
(***************************************************************************)
InitParticle ==
    /\ \E d \in ParticleDims :
           Loaded([use_isospin_sym |-> FALSE, disable_charm_pprod |-> FALSE,
                   disable_leading_mesons |-> FALSE], "A", d)
    /\ decay = None
    /\ \E model \in Models : cs = CsObject(model, dim)
    /\ \E pdgid \in PdgIds, ctau \in Lifetimes, c \in CrossOvers,
          ex \in {{}, {211}} :
           particle = NewParticle(pdgid, ctau, dim, c, ex)

NextParticle ==
    \/ \E name \in ModelNames : CsSetInteractionModel(name)
    \/ \E pr \in CsProjectiles, mbarn \in BOOLEAN : GetCs(pr, mbarn)
    \/ \E no_mix \in BOOLEAN, rho \in Densities : CalculateMixingEnergy(no_mix, rho)

SpecParticle == InitParticle /\ [][NextParticle]_vars

(***************************************************************************)
(* SpecIndex: loading and reloading of models, and the lookups of pairs    *)
(* that are or are not in the index                                        *)
(***************************************************************************)
\* the pairs asked for: registered, of zero yield, never tabulated, charmed
IndexPairs == {<<2212, 211>>, <<2212, 130>>, <<411, 211>>, <<411, 321>>,
               <<221, 211>>, <<2112, 211>>}

InitIndex ==
    \E cfg \in Configs, model \in Models :
        /\ ~cfg.use_isospin_sym
        /\ ~cfg.disable_leading_mesons
        /\ Loaded(cfg, model, DimSmall)
        /\ NoOthers

NextIndex ==
    \/ \E name \in ModelNames, force \in BOOLEAN : SetInteractionModel(name, force)
    \/ SetModPprod(2212, 211, "f1", <<2>>, MaxGetModCalls)
    \/ \E hi \in {0, MaxBandIdx - 1} : SetXfBand(0, hi)
    \/ \E k \in IndexPairs : GetYMatrix(k[1], k[2])
    \/ \E k \in IndexPairs \ {<<221, 211>>, <<2112, 211>>}, pr \in Ranges(dim),
          dr \in Ranges(dim) :
           AssignYieldIdx(k[1], pr, k[2], dr, [i \in Idx(dim) |-> [j \in Idx(dim) |-> 7]])

SpecIndex == InitIndex /\ [][NextIndex]_vars

(***************************************************************************)
(* SpecCharm: custom charm models injected into the yields of a model,     *)
(* reloads, and the lookups of pairs with a charm daughter                 *)
(***************************************************************************)
CharmPairs == {<<2212, 211>>, <<2212, 411>>, <<2212, 421>>, <<221, -411>>,
               <<411, 411>>}

InitCharm ==
    \E cfg \in Configs, model \in Models :
        /\ ~cfg.use_isospin_sym
        /\ ~cfg.disable_leading_mesons
        /\ Loaded(cfg, model, DimSmall)
        /\ NoOthers

NextCharm ==
    \/ \E model \in CharmModelNames : InjectCustomCharmModel(model)
    \/ \E name \in Models, force \in BOOLEAN : SetInteractionModel(name, force)
    \/ \E k \in CharmPairs : GetYMatrix(k[1], k[2])

SpecCharm == InitCharm /\ [][NextCharm]_vars

(***************************************************************************)
(* SpecReload: modifications of particle production across reloads of      *)
(* models that are tabulated on different grids                            *)
(***************************************************************************)
ReloadNames == {"A", "a-", "G", "C"}

InitReload ==
    \E cfg \in Configs, model \in {"A", "G"} :
        /\ ~cfg.disable_charm_pprod
        /\ ~cfg.disable_leading_mesons
        /\ Loaded(cfg, model, DimSmall)
        /\ NoOthers

NextReload ==
    \/ \E name \in ReloadNames, force \in BOOLEAN : SetInteractionModel(name, force)
    \/ \E sec \in {211, 321}, fa \in FArgs :
           SetModPprod(2212, sec, fa[1], fa[2], MaxModCalls)
    \/ \E sec \in {211, 321} : GetYMatrix(2212, sec)

SpecReload == InitReload /\ [][NextReload]_vars

(***************************************************************************)
(* Claims                                                                  *)
(***************************************************************************)
LastIsGet == ret.op = "get_y_matrix"

LastIsSetMod == ret.op = "_set_mod_pprod"

\* C1: with charm production disabled, get_y_matrix of a charmed projectile
\* returns a matrix of zeros, whatever calls were made before.
C1_CharmDisabledZero ==
    (LastIsGet /\ CharmDisabled(config, ret.args[1]))
        => (ret.status = "ok" /\ ret.val = Zeros(dim))

\* C2: the matrix stored for every pair is the one stored by the load, after
\* any sequence of get_y_matrix, assign_yield_idx, set_xf_band and
\* _set_mod_pprod calls.
C2_StoreNeverMutated == yields = GenYields(iam, dim)

\* a lookup that went through the veto's inversion, the scaling and the band
C2_Witness ==
    /\ LastIsGet /\ ret.status = "ok"
    /\ ~CharmDisabled(config, ret.args[1])
    /\ VetoKey(yields, config, dim, ret.args[1], ret.args[2]) # ret.args
    /\ ret.args \in DOMAIN mod_pprod
    /\ band # None
    /\ ret.val # yields[ret.args]
    /\ ret.val # Zeros(dim)

\* C3: _set_mod_pprod returns False and leaves the cache as it was exactly
\* when (prim, sec) is cached with the same (name, args); in every other case
\* it stores (name, args, new matrix) for (prim, sec) and returns True.
C3_SetModContract ==
    LastIsSetMod =>
        LET key == <<ret.args[1], ret.args[2]>>
            f == ret.args[3]
            args == ret.args[4]
        IN  IF SameAsCached(ret.before, key, f, args)
            THEN ret.status = "ok" /\ ret.val = FALSE /\ mod_pprod = ret.before
            ELSE /\ ret.status = "ok" /\ ret.val = TRUE
                 /\ key \in DOMAIN mod_pprod
                 /\ mod_pprod[key] = Entry(f, args, GenModMatrix(f, args, xmat, e_grid, dim))

\* a changing call _set_mod_pprod(2212, sec, ...) under isospin symmetry
IsospinCall(secs) ==
    /\ LastIsSetMod /\ ret.changed
    /\ config.use_isospin_sym
    /\ ret.args[1] = 2212
    /\ ret.args[2] \in secs

\* C4: under isospin symmetry a changing call for (2212, s), s a charged pion,
\* leaves (2112, -s) tagged 'isospin' with the same args and the matrix
\* stored for (2212, s).
C4_PionMirror ==
    IsospinCall({211, -211}) =>
        LET s == ret.args[2]
        IN  /\ <<2112, -s>> \in DOMAIN mod_pprod
            /\ mod_pprod[<<2112, -s>>].name = "isospin"
            /\ mod_pprod[<<2112, -s>>].args = ret.args[4]
            /\ mod_pprod[<<2112, -s>>].mat = mod_pprod[<<2212, s>>].mat

\* the mirrored entry existed and was overwritten with another one
C4_Witness ==
    /\ IsospinCall({211, -211})
    /\ <<2112, -ret.args[2]>> \in DOMAIN ret.before
    /\ ret.before[<<2112, -ret.args[2]>>] # mod_pprod[<<2112, -ret.args[2]>>]
    /\ <<2112, ret.args[2]>> \notin DOMAIN mod_pprod

\* the element-wise average of the new args and the args of the
\* opposite-charge entry, or the new args alone without such an entry
ClaimedArgs(args, sec) ==
    IF <<2212, -sec>> \in DOMAIN ret.before
    THEN LET other == ret.before[<<2212, -sec>>].args
         IN  [i \in 1 .. Len(args) |->
                 IF i <= Len(other) THEN (args[i] + other[i]) \div 2 ELSE args[i]]
    ELSE args

\* every pair of keys holds the entry ('isospin', args, matrix of
\* name(args))
AllHold(keys, name, args) ==
    \A n \in DOMAIN keys :
        /\ keys[n] \in DOMAIN mod_pprod
        /\ mod_pprod[keys[n]] =
               Entry("isospin", args, GenModMatrix(name, args, xmat, e_grid, dim))

\* no pair of keys was created or changed by the last call
NoneTouched(keys) ==
    \A n \in DOMAIN keys :
        /\ keys[n] \in DOMAIN mod_pprod <=> keys[n] \in DOMAIN ret.before
        /\ keys[n] \in DOMAIN mod_pprod => mod_pprod[keys[n]] = ret.before[keys[n]]

\* C5: under isospin symmetry, after a changing call for (2212, s), s a
\* charged pion: with an eta, omega or phi projectile in the model all six
\* pairs {2212, 2112} x {221, 223, 333} hold one 'isospin' entry whose args
\* average the new args and those stored for (2212, -s) (the new args alone
\* without that entry); without such a projectile none of the six is touched.
C5_Unflavored ==
    IsospinCall({211, -211}) =>
        IF HasUnflv(projectiles)
        THEN AllHold(Unflavored, ret.args[3], ClaimedArgs(ret.args[4], ret.args[2]))
        ELSE NoneTouched(Unflavored)

\* C6: under isospin symmetry, after a changing call for (2212, s), s a
\* charged kaon: (2112, s) is tagged 'isospin' with the matrix of (2212, s),
\* the four pairs {2212, 2112} x {130, 310} hold one 'isospin' entry whose
\* args average the new args and those stored for (2212, -s), and (2212, s)
\* keeps the matrix of the caller's own args.
C6_Kaons ==
    IsospinCall({321, -321}) =>
        LET s == ret.args[2]
            f == ret.args[3]
            args == ret.args[4]
        IN  /\ <<2112, s>> \in DOMAIN mod_pprod
            /\ mod_pprod[<<2112, s>>].name = "isospin"
            /\ mod_pprod[<<2112, s>>].mat = mod_pprod[<<2212, s>>].mat
            /\ AllHold(NeutralKaons, f, ClaimedArgs(args, s))
            /\ mod_pprod[<<2212, s>>].mat = GenModMatrix(f, args, xmat, e_grid, dim)

\* C7: a _set_mod_pprod call touches an entry other than (prim, sec) only
\* with the isospin flag on, prim = 2212 and sec one of +-211, +-321, 2212.
C7_PropagationConfined ==
    (LastIsSetMod
        /\ ~(/\ config.use_isospin_sym
             /\ ret.args[1] = 2212
             /\ ret.args[2] \in {211, -211, 321, -321, 2212}))
    => \A k \in ((DOMAIN mod_pprod) \cup (DOMAIN ret.before))
                    \ {<<ret.args[1], ret.args[2]>>} :
           /\ k \in DOMAIN mod_pprod /\ k \in DOMAIN ret.before
           /\ mod_pprod[k] = ret.before[k]

\* C8: once a band is set, get_y_matrix calls and the clearing of the band
\* leave get_y_matrix returning, for every pair, what it returned before the
\* band was set.
C8_BandRoundTrip ==
    (hist.pure /\ band = None)
        => Answers(yields, config, no_interaction, mod_pprod, band, dim) = hist.unbanded

\* the band was cleared after a lookup that it had masked
C8_Witness ==
    /\ hist.pure /\ hist.masked /\ band = None
    /\ ret.op = "set_xf_band"
    /\ mod_pprod # << >>

NonNegUpper(m, d) ==
    \A i \in Idx(d), j \in Idx(d) : m[i][j] >= 0 /\ (i > j => m[i][j] = 0)

\* C9: for a pair with is_yield, get_y_matrix returns a matrix without
\* negative entries and with zeros below the diagonal.
C9_NonNegativeUpper ==
    (/\ LastIsGet /\ ret.status = "ok"
     /\ is_yield(projectiles, secondary_dict, ret.args[1], ret.args[2]))
        => NonNegUpper(ret.val, dim)

\* a lookup of a registered pair under an active modification and a band
C9_Witness ==
    /\ LastIsGet /\ ret.status = "ok"
    /\ is_yield(projectiles, secondary_dict, ret.args[1], ret.args[2])
    /\ config.disable_leading_mesons
    /\ ret.args \in DOMAIN mod_pprod
    /\ band # None
    /\ ret.val # Zeros(dim)

\* the stored matrix of key, scaled by the modification of (p, d) and masked
\* by the band
DerivedFrom(key, p, d) ==
    LET m0 == yields[key]
        m1 == IF <<p, d>> \in DOMAIN mod_pprod
              THEN Times(m0, mod_pprod[<<p, d>>].mat, dim) ELSE m0
    IN  IF band = None THEN m1 ELSE BandMask(m1, dim, band)

\* the matrix with the smaller sum over the window, the daughter's on a tie
SmallerLeading(p, d) ==
    IF Leading(yields[<<p, -d>>], dim) < Leading(yields[<<p, d>>], dim)
    THEN <<p, -d>> ELSE <<p, d>>

LookedUp == LastIsGet /\ ret.status = "ok" /\ ~CharmDisabled(config, ret.args[1])

LastIsAssign == ret.op = "assign_yield_idx"

LastIsSetModel == ret.op = "set_interaction_model"

\* the pair is in the registry of the loaded model
Registered(p, d) == is_yield(projectiles, secondary_dict, p, d)

\* C11: get_y_matrix of a pair that is not in the registry returns a matrix
\* of zeros and does not raise, with charm production disabled or not.
C11_AbsentPairZero ==
    (LastIsGet /\ ~Registered(ret.args[1], ret.args[2]))
        => (ret.status = "ok" /\ ret.val = Zeros(dim))

\* row i, column j lies in the block target[d0:d1, p0:p1]
InBlock(i, j, dtridx, projidx) ==
    dtridx[1] <= i /\ i < dtridx[2] /\ projidx[1] <= j /\ j < projidx[2]

\* the target holds the block of the lookup's result and is otherwise as
\* the caller passed it
BlockCopied ==
    LET projidx == ret.args[2]
        dtridx == ret.args[4]
        target == ret.args[5]
        g == get_y_matrix(yields, config, no_interaction, mod_pprod, band, dim,
                          ret.args[1], ret.args[3])
    IN  /\ ret.status = "ok"
        /\ g.status = "ok"
        /\ \A i \in Idx(dim), j \in Idx(dim) :
               ret.val[i][j] = IF InBlock(i, j, dtridx, projidx)
                               THEN g.val[i][j] ELSE target[i][j]

\* the call failed and the target is as the caller passed it
AssignFailed == ret.status = "KeyError" /\ ret.val = ret.args[5]

\* C12 as claimed: assign_yield_idx copies the block [d0:d1, p0:p1] of
\* get_y_matrix(projectile, daughter) into the target and leaves the rest of
\* the target alone; for a pair that is not in the registry it fails and
\* leaves the whole target alone.
C12_AssignAbsentFails ==
    LastIsAssign =>
        IF Registered(ret.args[1], ret.args[3]) THEN BlockCopied ELSE AssignFailed

\* C12, amended: as claimed, except that for a charmed projectile with charm
\* production disabled the block is copied whether or not the pair is in
\* the registry.
C12_AssignBlock ==
    LastIsAssign =>
        IF Registered(ret.args[1], ret.args[3]) \/ CharmDisabled(config, ret.args[1])
        THEN BlockCopied ELSE AssignFailed

\* a block of a modified, band-masked matrix was copied into a target that
\* keeps the caller's entries around it
C12_Witness ==
    /\ LastIsAssign /\ ret.status = "ok"
    /\ Registered(ret.args[1], ret.args[3])
    /\ <<ret.args[1], ret.args[3]>> \in DOMAIN mod_pprod
    /\ band # None
    /\ \E i \in Idx(dim), j \in Idx(dim) :
           InBlock(i, j, ret.args[4], ret.args[2]) /\ ret.val[i][j] \notin {0, ret.args[5][i][j]}
    /\ \E i \in Idx(dim), j \in Idx(dim) :
           ~InBlock(i, j, ret.args[4], ret.args[2]) /\ ret.val[i][j] = 7

\* the sum of all entries of the raw matrix of key
RawTotal(key) ==
    SumTo([n \in 0 .. (dim * dim - 1) |-> RawMat(key, dim)[n \div dim][n % dim]],
          dim * dim)

C14_ActiveModelNoOp ==
    (LastIsSetModel /\ ~ret.args[2] /\ Normalize(ret.args[1]) = ret.before.iam)
        => /\ ret.status = "ok" /\ ret.val = FALSE /\ ~ret.loaded
           /\ Snapshot = ret.before

\* the active model was asked for under another spelling of its name, with
\* a modification and a band in place
C14_Witness ==
    /\ LastIsSetModel /\ ~ret.args[2]
    /\ ret.args[1] # iam /\ Normalize(ret.args[1]) = ret.before.iam
    /\ mod_pprod # << >> /\ band # None
    /\ no_interaction # Zeros(dim)

\* C15: after a load from a table in which the muon has decay channels,
\* daughters(a) = daughters(13) and daughters(-a) = daughters(-13) for every
\* alias ID a, and get_d_matrix gives the alias the muon's matrix for every
\* such daughter, whatever mother_list, compact mode and disable-decays set.
C15_AliasRule ==
    Constructed(decay) =>
        \A a \in Aliases, mu \in {13, -13} :
            LET alias == IF mu = 13 THEN a ELSE -a
                dd == decay.daughter_dict
            IN  /\ daughters(dd, alias) = daughters(dd, mu)
                /\ \A n \in DOMAIN daughters(dd, mu) :
                       LET d == daughters(dd, mu)[n]
                       IN  /\ get_d_matrix(decay.decay_dict, alias, d).status = "ok"
                           /\ get_d_matrix(decay.decay_dict, alias, d)
                                  = get_d_matrix(decay.decay_dict, mu, d)

\* C16: the load completes for every disable-decays set, whether or not its
\* species have decay channels in the table; afterwards daughters(species)
\* is empty and is_daughter(species, d) is False for every disabled
\* species; daughters(mother) of a mother that does not decay is the empty
\* list and not an error.
C16_DisabledStable ==
    /\ decay # None =>
           /\ decay.status = "ok"
           /\ \A s \in decay.disable_decays :
                  /\ daughters(decay.daughter_dict, s) = << >>
                  /\ \A d \in DecaySpecies \cup {11, -11, 12, -12, 14, -14} :
                         ~is_daughter(decay.daughter_dict, s, d)
    /\ (ret.op = "daughters" /\ ret.args[1] \notin decay.mothers)
           => (ret.status = "ok" /\ ret.val = << >>)

LastIsGetCs == ret.op = "get_cs"

LastIsCalc == ret.op = "calculate_mixing_energy"

\* the vector the claim names for a projectile: the tabulated one, or the
\* fallback of its species class, or zeros for a lepton
ClaimedCs(table, pr, d) ==
    IF pr \in DOMAIN table THEN table[pr]
    ELSE IF Abs(pr) \in {411, 421, 431, 15} THEN table[321]
    ELSE IF Abs(pr) \in {4332, 4232, 4132} THEN table[2212]
    ELSE IF Abs(pr) = 22 THEN table[211]
    ELSE IF Abs(pr) > 2000 /\ Abs(pr) < 5000 THEN table[2212]
    ELSE IF (10 < Abs(pr) /\ Abs(pr) < 17) \/ (7000 < Abs(pr) /\ Abs(pr) < 7500)
         THEN [i \in Idx(d) |-> 0]
    ELSE table[211]

\* C17: get_cs returns for every projectile ID the tabulated vector, else
\* the kaon vector for 411, 421, 431, 15, the nucleon vector for 4332, 4232,
\* 4132, the pion vector for 22, the nucleon vector for 2000 < |id| < 5000,
\* a vector of zeros over the grid for the lepton ranges and the pion
\* vector otherwise, every non-zero result scaled by 1 (mbarn) or by
\* mbarn2cm2 (cm^2).
C17_CrossSectionFallback ==
    LastIsGetCs =>
        LET want == ClaimedCs(cs.cs, ret.args[1], dim)
        IN  /\ ret.status = "ok"
            /\ ret.val.shape = "vector"
            /\ ret.val.val = want
            /\ (want # [i \in Idx(dim) |-> 0])
                   => ret.val.exp10 = (IF ret.args[2] THEN 0 ELSE -27)

\* C18: a nucleon or antinucleon has mix_idx = 0, is_mixed = False and
\* is_resonance = False after any sequence of calculate_mixing_energy calls.
C18_NucleonPureHadron ==
    (Constructed(particle) /\ Abs(particle.pdgid) \in {2212, 2112})
        => (particle.mix_idx = 0 /\ ~particle.is_mixed /\ ~particle.is_resonance)

\* a neutron whose lifetime and cross-section would make it a resonance was
\* classified twice
C18_Witness ==
    /\ LastIsCalc /\ ret.status = "ok"
    /\ Abs(particle.pdgid) = 2112
    /\ particle.ctau = 1 /\ particle.hybrid_crossover = 40
    /\ ~ret.args[1]
    /\ ret.before = particle

\* the threshold of a particle that was never classified: decay length
\* times density times cross-section, bin by bin
FreshThreshold(p, sigma, max_density) ==
    [i \in Idx(p.d) |-> p.ctau * e_grid[i] * max_density * sigma[i]]

\* the last call classified a freshly created species that is no nucleon,
\* is not excluded, decays and interacts
FreshCall ==
    /\ LastIsCalc
    /\ ret.before.mix_idx = 0 /\ ret.before.E_mix = 0
    /\ ~ret.before.is_mixed /\ ~ret.before.is_resonance
    /\ Abs(particle.pdgid) \notin {2212, 2112}
    /\ Abs(particle.pdgid) \notin particle.exclude_from_mixing
    /\ particle.ctau # Inf
    /\ get_cs(ret.table, particle.pdgid, FALSE).shape = "vector"

\* C19: for a freshly created species that is no nucleon, is not excluded
\* and has non-zero decay and interaction rates: max(threshold) < crossover
\* gives pure resonance with mix_idx = d - 1, min(threshold) > crossover
\* pure hadron with mix_idx = 0, anything else mixed with mix_idx the first
\* index where threshold > crossover and E_mix = e_grid[mix_idx].
C19_Classification ==
    FreshCall =>
        LET thr == FreshThreshold(particle,
                                  get_cs(ret.table, particle.pdgid, FALSE).val,
                                  ret.args[2])
            c == particle.hybrid_crossover
            d == particle.d
        IN  /\ ret.status = "ok"
            /\ IF \A i \in Idx(d) : thr[i] < c
               THEN /\ particle.is_resonance /\ ~particle.is_mixed
                    /\ particle.mix_idx = d - 1
               ELSE IF \A i \in Idx(d) : thr[i] > c
               THEN /\ ~particle.is_resonance /\ ~particle.is_mixed
                    /\ particle.mix_idx = 0
               ELSE /\ particle.is_mixed /\ ~particle.is_resonance
                    /\ thr[particle.mix_idx] > c
                    /\ \A i \in Idx(d) : i < particle.mix_idx => thr[i] <= c
                    /\ particle.E_mix = e_grid[particle.mix_idx]

\* C20: after every calculate_mixing_energy call the species is pure
\* resonance, mixed or pure hadron: is_mixed and is_resonance are never both
\* True, pure hadron has mix_idx = 0 and pure resonance mix_idx = d - 1.
C20_OneClassification ==
    Constructed(particle) =>
        /\ ~(particle.is_mixed /\ particle.is_resonance)
        /\ (~particle.is_mixed /\ ~particle.is_resonance) => particle.mix_idx = 0
        /\ (particle.is_resonance /\ ~particle.is_mixed)
               => particle.mix_idx = particle.d - 1

\* a mixed species became a pure resonance in a later call
C20_Witness ==
    /\ LastIsCalc /\ ret.status = "ok"
    /\ ret.before.is_mixed
    /\ particle.is_resonance

\* C21: in every state of a particle on a grid of d >= 1 bins,
\* 0 <= mix_idx <= d - 1, residx() is (0, mix_idx) and hadridx() is
\* (mix_idx, d), and the two ranges partition the bins 0 .. d - 1 with no
\* gap and no overlap.
C21_IndexPartition ==
    Constructed(particle) =>
        /\ particle.d >= 1
        /\ 0 <= particle.mix_idx /\ particle.mix_idx <= particle.d - 1
        /\ residx(particle) = <<0, particle.mix_idx>>
        /\ hadridx(particle) = <<particle.mix_idx, particle.d>>
        /\ \A i \in Idx(particle.d) :
               (residx(particle)[1] <= i /\ i < residx(particle)[2])
                   # (hadridx(particle)[1] <= i /\ i < hadridx(particle)[2])
        /\ residx(particle)[1] = 0 /\ hadridx(particle)[2] = particle.d

\* a call left the transition strictly inside the grid: both ranges hold bins
C21_Witness ==
    /\ LastIsCalc /\ ret.status = "ok"
    /\ particle.is_mixed
    /\ 0 < particle.mix_idx /\ particle.mix_idx < particle.d - 1

C24_Idempotent ==
    (LastIsCalc /\ ret.repeat) =>
        /\ ret.status = "ok"
        /\ particle.mix_idx = ret.before.mix_idx
        /\ particle.E_mix = ret.before.E_mix
        /\ particle.is_mixed = ret.before.is_mixed
        /\ particle.is_resonance = ret.before.is_resonance

\* C25: calculate_mixing_energy ends with a classification for every
\* threshold vector, the one whose maximum equals the crossover included:
\* the search for the first index above the crossover never fails on an
\* empty result, and 0 <= mix_idx <= d - 1 afterwards.
C25_MixedBranchTotal ==
    LastIsCalc =>
        /\ ret.status # "IndexError"
        /\ 0 <= particle.mix_idx /\ particle.mix_idx <= particle.d - 1

\* C26: get_cs returns without a lookup failure for every projectile ID,
\* and for an ID whose absolute value has its own entry in the table the
\* result for the negative ID is the result for the positive one.
C26_SignSymmetry ==
    LastIsGetCs =>
        /\ ret.status = "ok"
        /\ Abs(ret.args[1]) \in DOMAIN cs.cs
               => ret.val = get_cs(cs.cs, Abs(ret.args[1]), ret.args[2])

LastIsInject == ret.op = "_inject_custom_charm_model"

\* C23: after _inject_custom_charm_model with a name the code has no
\* branch for, the index of secondaries, the yield store and charm_model are
\* what they were before the call: the charm daughters are still registered
\* under their projectiles.
C23_UnsupportedCharmNoOp ==
    (LastIsInject /\ ret.args[1] \notin CharmBranches \cup {NoName}) =>
        /\ secondary_dict = ret.before.secondary_dict
        /\ yields = ret.before.yields
        /\ charm_model = ret.before.charm_model

\* C27: whenever xmat is not None it is a d x d matrix for the current d
\* with xmat[i, j] = e_grid[i] / e_grid[j] of the current grid for i <= j
\* and 0 for i > j, after any sequence of loads, reloads and _set_mod_pprod
\* calls.
C27_XmatOfCurrentGrid ==
    xmat # None =>
        xmat = [i \in Idx(dim) |-> [j \in Idx(dim) |->
                   IF i <= j THEN XDiv(e_grid[i], e_grid[j], dim) ELSE 0]]

====
